---- MODULE Spec2Model ----
(***************************************************************************)
(* Model of crates/building_blocks_storage/src/array/channel.rs:           *)
(* Channel<T, Store>, its uninitialized fast path, the point accessors     *)
(* (GetRef / GetMut / GetMutPtr) and the Channels trait with its tuple      *)
(* implementations.                                                        *)
(*                                                                         *)
(* A Vec is modelled at the level of its raw parts: the address of its     *)
(* allocation, its length, its capacity and the content of the allocation  *)
(* (one slot per unit of capacity).  A slot holds a value or is             *)
(* uninitialised.  A checked index either yields a place in the allocation  *)
(* or signals IndexOutOfBounds; an unchecked one always yields a place,     *)
(* which may lie outside the slice: using such a place is undefined         *)
(* behaviour and is modelled as a choice over what a build can do.          *)
(***************************************************************************)
EXTENDS Integers, Sequences, FiniteSets, TLC

\* ---------------------------------------------------------------- bounds
MaxLen == 2
NumValues == 2
CapSlack == 1
MaxTupleLen == 1

Values == 0 .. (NumValues - 1)
Lengths == 0 .. MaxLen
\* offsets in range, equal to the length, inside the spare capacity and
\* outside the allocation
Offsets == 0 .. (MaxLen + 1)
\* the same for the members of a 2-tuple
TupleLengths == 0 .. MaxTupleLen
TupleOffsets == 0 .. (MaxTupleLen + 1)

\* content of a slot that was reserved and never written
Uninit == -1

VARIABLES
    debug_assertions,   \* cfg!(debug_assertions): the build mode
    chs,                \* the channels: a 1-tuple (one Channel) or a 2-tuple
    len0,               \* per channel: the length asked for at construction
    last                \* the last call: what was called, with what, and what came back

vars == <<debug_assertions, chs, len0, last>>

\* ------------------------------------------------------------- allocator
\* address of the allocation that backs member k
HeapBase(k) == k * (MaxLen + CapSlack + 2)

\* ------------------------------------------------------------------- Vec
\* vec![value; length] building one element too few
vec_from_elem_short(p, value, length) ==
    [ptr |-> p, len |-> IF length > 0 THEN length - 1 ELSE 0, cap |-> length,
     buf |-> [i \in 1 .. length |-> value]]

\* vec![value; length]
vec_from_elem(p, value, length) ==
    [ptr |-> p, len |-> length, cap |-> length,
     buf |-> [i \in 1 .. length |-> value]]

\* a caller's Vec holding the elements s
vec_of(p, s) ==
    [ptr |-> p, len |-> Len(s), cap |-> Len(s), buf |-> s]

\* Vec::with_capacity(size): capacity at least size, nothing written
Vec_with_capacity(p, size, extra) ==
    [ptr |-> p, len |-> 0, cap |-> size + extra,
     buf |-> [i \in 1 .. (size + extra) |-> Uninit]]

\* set_len forgotten: the length stays 0
set_len_forgotten(v, new_len) == v

\* Vec::set_len
set_len(v, new_len) == [v EXCEPT !.len = new_len]

\* Vec::from_raw_parts(ptr, length, capacity) over the memory mem at ptr
from_raw_parts(p, length, capacity, mem) ==
    [ptr |-> p, len |-> length, cap |-> capacity, buf |-> mem]

\* the slice a Vec derefs to: its first len slots
as_slice(v) == [i \in 1 .. v.len |-> v.buf[i]]

\* a fill loop that stops one element early
slice_fill_short(v, value) ==
    [v EXCEPT !.buf = [i \in 1 .. Len(v.buf) |->
                          IF i < v.len THEN value ELSE v.buf[i]]]

\* <[T]>::fill(value): every element of the slice, nothing beyond it
slice_fill(v, value) ==
    [v EXCEPT !.buf = [i \in 1 .. Len(v.buf) |->
                          IF i <= v.len THEN value ELSE v.buf[i]]]

\* --------------------------------------------------------------- Channel
new(T, store) == [store |-> store, marker |-> T]

\* take_store handing out an empty store in place of the channel's own
take_store_empty(self) ==
    [ptr |-> self.store.ptr, len |-> 0, cap |-> 0, buf |-> <<>>]

take_store(self) == self.store

store(self) == self.store

store_mut(self) == self.store

fill(p, value, length) == new("T", vec_from_elem(p, value, length))

reset_values(self, value) ==
    [self EXCEPT !.store = slice_fill(self.store, value)]

maybe_uninit(p, size, extra) ==
    new("MaybeUninit<T>", set_len(Vec_with_capacity(p, size, extra), size))

\* from_raw_parts with length and capacity in the wrong order
assume_init_swapped(self) ==
    new("T", from_raw_parts(self.store.ptr, self.store.cap,
                            self.store.len, self.store.buf))

assume_init(self) ==
    new("T", from_raw_parts(self.store.ptr, self.store.len,
                            self.store.cap, self.store.buf))

\* ------------------------------------------------------------- accessors
\* a bounds check that lets offset == len through
Index_inclusive(v, offset) ==
    IF offset <= v.len
    THEN [signal |-> "none", place |-> offset + 1]
    ELSE [signal |-> "IndexOutOfBounds", place |-> 0]

\* self.store[offset]: the bounds-checked index
Index(v, offset) ==
    IF offset < v.len
    THEN [signal |-> "none", place |-> offset + 1]
    ELSE [signal |-> "IndexOutOfBounds", place |-> 0]

\* self.store.get_unchecked(offset): no check
get_unchecked(v, offset) == [signal |-> "none", place |-> offset + 1]

\* get_ref checking the bounds in every build mode
get_ref_always_checked(self, offset) == Index(self.store, offset)

\* get_ref yielding the element after the one asked for
get_ref_off_by_one(self, offset) ==
    IF debug_assertions
    THEN [Index(self.store, offset) EXCEPT !.place = offset + 2]
    ELSE [get_unchecked(self.store, offset) EXCEPT !.place = offset + 2]

get_ref(self, offset) ==
    IF debug_assertions
    THEN Index(self.store, offset)
    ELSE get_unchecked(self.store, offset)

\* get_mut yielding the element before the one asked for
get_mut_off_by_one(self, offset) ==
    IF debug_assertions
    THEN [Index(self.store, offset) EXCEPT !.place = offset]
    ELSE [get_unchecked(self.store, offset) EXCEPT !.place = offset]

get_mut(self, offset) ==
    IF debug_assertions
    THEN Index(self.store, offset)
    ELSE get_unchecked(self.store, offset)

get_mut_ptr(self, offset) == self.store.ptr + offset

Ok(v) == [signal |-> "none", val |-> <<v>>]

Fail(s) == [signal |-> s, val |-> <<>>]

\* What reading through a view can give.  An initialised slot gives its
\* value.  An uninitialised slot read as a T, and a place outside the
\* allocation, are undefined behaviour: any value, or for a place outside
\* the allocation a fault.
Read(self, view) ==
    IF view.signal # "none" THEN {Fail(view.signal)}
    ELSE IF view.place \in 1 .. Len(self.store.buf)
    THEN LET s == self.store.buf[view.place]
         IN  IF s = Uninit /\ self.marker = "T"
             THEN {Ok(v) : v \in Values}
             ELSE {Ok(s)}
    ELSE {Ok(v) : v \in Values} \cup {Fail("SIGSEGV")}

\* What writing x through a mutable view can give: the channel afterwards
\* and the signal.  A place outside the allocation is memory that belongs to
\* no channel of the model.
Write(self, view, x) ==
    IF view.signal # "none" THEN {[signal |-> view.signal, ch |-> self]}
    ELSE IF view.place \in 1 .. Len(self.store.buf)
    THEN {[signal |-> "none",
           ch |-> [self EXCEPT !.store.buf[view.place] = x]]}
    ELSE {[signal |-> s, ch |-> self] : s \in {"none", "SIGSEGV"}}

\* Get: get_ref, then clone
get(self, offset) == get_ref(self, offset)

\* -------------------------------------------------------------- Channels
\* impl Channels for Channel<T>
Channel_Channels_fill(p, value, length) == fill(p, value, length)

Channel_Channels_reset_values(self, value) == reset_values(self, value)

\* impl Channels for a tuple: member k gets sub-value k
Channels_fill(value, length) ==
    [k \in DOMAIN value |-> Channel_Channels_fill(HeapBase(k), value[k], length)]

\* reset_values handing the first sub-value to every member
Channels_reset_values_reuse(self, value) ==
    [k \in DOMAIN self |-> Channel_Channels_reset_values(self[k], value[1])]

Channels_reset_values(self, value) ==
    [k \in DOMAIN self |-> Channel_Channels_reset_values(self[k], value[k])]

\* point access on a tuple of channels: component k is what the same access
\* on member k can give
tuple_get_ref(self, offset) ==
    [k \in DOMAIN self |-> Read(self[k], get_ref(self[k], offset))]

tuple_get_mut(self, offset) ==
    [k \in DOMAIN self |-> Read(self[k], get_mut(self[k], offset))]

tuple_get(self, offset) ==
    [k \in DOMAIN self |-> Read(self[k], get(self[k], offset))]

\* --------------------------------------------------------------- helpers
Stores == UNION {[1 .. n -> Values] : n \in Lengths}

TupleStores == UNION {[1 .. n -> Values] : n \in TupleLengths}

Call(op, k, usize, val, ret, signal) ==
    [op |-> op, k |-> k, usize |-> usize, val |-> val, ret |-> ret,
     signal |-> signal]

\* the outcome of reading a tuple of views: the first member that signals
\* ends the call, otherwise the tuple of the members' values
TupleOutcome(rs) ==
    IF \E k \in DOMAIN rs : rs[k].signal # "none"
    THEN Fail(rs[CHOOSE k \in DOMAIN rs :
                   /\ rs[k].signal # "none"
                   /\ \A j \in DOMAIN rs : rs[j].signal # "none" => k <= j].signal)
    ELSE [signal |-> "none", val |-> [k \in DOMAIN rs |-> rs[k].val[1]]]

\* ------------------------------------------------------------------ Init
InitWith(arity, lengths) ==
    /\ debug_assertions \in BOOLEAN
    /\ \E value \in [1 .. arity -> Values], length \in lengths :
          /\ chs = Channels_fill(value, length)
          /\ len0 = [k \in 1 .. arity |-> length]
          /\ last = Call("Channels::fill", 0, length, value, <<>>, "none")

Init == InitWith(1, Lengths)

InitTuple == InitWith(2, TupleLengths)

\* --------------------------------------------------------------- actions
\* Channel::new(store) on a store the caller built
New(k, s) ==
    /\ chs' = [chs EXCEPT ![k] = new("T", vec_of(HeapBase(k), s))]
    /\ len0' = [len0 EXCEPT ![k] = Len(s)]
    /\ last' = Call("new", k, Len(s), s, <<>>, "none")
    /\ UNCHANGED debug_assertions

\* Channel::fill(value, length)
Fill(k, value, length) ==
    /\ chs' = [chs EXCEPT ![k] = fill(HeapBase(k), value, length)]
    /\ len0' = [len0 EXCEPT ![k] = length]
    /\ last' = Call("fill", k, length, <<value>>, <<>>, "none")
    /\ UNCHANGED debug_assertions

\* c.reset_values(value)
ResetValues(k, value) ==
    /\ chs' = [chs EXCEPT ![k] = reset_values(chs[k], value)]
    /\ last' = Call("reset_values", k, 0, <<value>>, <<>>, "none")
    /\ UNCHANGED <<debug_assertions, len0>>

\* c.store() / c.store_mut(): a borrow of the store
Store(k, mutable) ==
    /\ last' = IF mutable
               THEN Call("store_mut", k, 0, <<>>, as_slice(store_mut(chs[k])), "none")
               ELSE Call("store", k, 0, <<>>, as_slice(store(chs[k])), "none")
    /\ UNCHANGED <<debug_assertions, chs, len0>>

\* Channel::new(c.take_store())
Rewrap(k) ==
    /\ chs' = [chs EXCEPT ![k] = new(chs[k].marker, take_store(chs[k]))]
    /\ last' = Call("take_store", k, 0, <<>>, <<>>, "none")
    /\ UNCHANGED <<debug_assertions, len0>>

\* *c.get_ref(offset)
GetRef(k, offset) ==
    /\ \E r \in Read(chs[k], get_ref(chs[k], offset)) :
          last' = Call("get_ref", k, offset, <<>>, r.val, r.signal)
    /\ UNCHANGED <<debug_assertions, chs, len0>>

\* c.get(offset)
Get(k, offset) ==
    /\ \E r \in Read(chs[k], get(chs[k], offset)) :
          last' = Call("get", k, offset, <<>>, r.val, r.signal)
    /\ UNCHANGED <<debug_assertions, chs, len0>>

\* *c.get_mut(offset) = x
GetMut(k, offset, x) ==
    /\ \E w \in Write(chs[k], get_mut(chs[k], offset), x) :
          /\ chs' = [chs EXCEPT ![k] = w.ch]
          /\ last' = Call("get_mut", k, offset, <<x>>, <<>>, w.signal)
    /\ UNCHANGED <<debug_assertions, len0>>

\* c.get_mut_ptr(offset)
GetMutPtr(k, offset) ==
    /\ last' = Call("get_mut_ptr", k, offset, <<>>,
                    <<get_mut_ptr(chs[k], offset)>>, "none")
    /\ UNCHANGED <<debug_assertions, chs, len0>>

\* Channel::maybe_uninit(size)
MaybeUninit(k, size, extra) ==
    /\ chs' = [chs EXCEPT ![k] = maybe_uninit(HeapBase(k), size, extra)]
    /\ len0' = [len0 EXCEPT ![k] = size]
    /\ last' = Call("maybe_uninit", k, size, <<>>, <<>>, "none")
    /\ UNCHANGED debug_assertions

\* c.assume_init()
AssumeInit(k) ==
    /\ chs[k].marker = "MaybeUninit<T>"
    /\ chs' = [chs EXCEPT ![k] = assume_init(chs[k])]
    /\ last' = Call("assume_init", k, 0, <<>>, <<>>, "none")
    /\ UNCHANGED <<debug_assertions, len0>>

\* Channels::fill(value, length) for the tuple
ChannelsFill(value, length) ==
    /\ chs' = Channels_fill(value, length)
    /\ len0' = [k \in DOMAIN chs |-> length]
    /\ last' = Call("Channels::fill", 0, length, value, <<>>, "none")
    /\ UNCHANGED debug_assertions

\* tuple.reset_values(value)
ChannelsResetValues(value) ==
    /\ chs' = Channels_reset_values(chs, value)
    /\ last' = Call("Channels::reset_values", 0, 0, value, <<>>, "none")
    /\ UNCHANGED <<debug_assertions, len0>>

\* tuple.get_ref(offset), tuple.get(offset), tuple.get_mut(offset)
TupleRead(op, offset) ==
    /\ LET reads == CASE op = "tuple.get_ref" -> tuple_get_ref(chs, offset)
                      [] op = "tuple.get_mut" -> tuple_get_mut(chs, offset)
                      [] OTHER -> tuple_get(chs, offset)
       IN  \E rs \in [DOMAIN chs -> UNION {reads[k] : k \in DOMAIN chs}] :
              /\ \A k \in DOMAIN chs : rs[k] \in reads[k]
              /\ last' = Call(op, 0, offset, <<>>, TupleOutcome(rs).val,
                              TupleOutcome(rs).signal)
    /\ UNCHANGED <<debug_assertions, chs, len0>>

TupleReadOps == {"tuple.get", "tuple.get_ref", "tuple.get_mut"}

\* ---------------------------------------------------------- specifications
Next ==
    \/ \E k \in DOMAIN chs, s \in Stores : New(k, s)
    \/ \E k \in DOMAIN chs, value \in Values, length \in Lengths :
          Fill(k, value, length)
    \/ \E k \in DOMAIN chs, value \in Values : ResetValues(k, value)
    \/ \E k \in DOMAIN chs, mutable \in BOOLEAN : Store(k, mutable)
    \/ \E k \in DOMAIN chs : Rewrap(k)
    \/ \E k \in DOMAIN chs, offset \in Offsets : GetRef(k, offset)
    \/ \E k \in DOMAIN chs, offset \in Offsets : Get(k, offset)
    \/ \E k \in DOMAIN chs, offset \in Offsets, x \in Values :
          GetMut(k, offset, x)
    \/ \E k \in DOMAIN chs, offset \in Offsets : GetMutPtr(k, offset)
    \/ \E k \in DOMAIN chs, size \in Lengths, extra \in 0 .. CapSlack :
          MaybeUninit(k, size, extra)
    \/ \E k \in DOMAIN chs : AssumeInit(k)
    \/ \E value \in [DOMAIN chs -> Values], length \in Lengths :
          ChannelsFill(value, length)
    \/ \E value \in [DOMAIN chs -> Values] : ChannelsResetValues(value)

Spec == Init /\ [][Next]_vars

NextTuple ==
    \/ \E k \in DOMAIN chs, s \in TupleStores : New(k, s)
    \/ \E k \in DOMAIN chs, value \in Values : ResetValues(k, value)
    \/ \E k \in DOMAIN chs, offset \in TupleOffsets, x \in Values :
          GetMut(k, offset, x)
    \/ \E value \in [DOMAIN chs -> Values], length \in TupleLengths :
          ChannelsFill(value, length)
    \/ \E value \in [DOMAIN chs -> Values] : ChannelsResetValues(value)
    \/ \E op \in TupleReadOps, offset \in TupleOffsets : TupleRead(op, offset)

SpecTuple == InitTuple /\ [][NextTuple]_vars

\* ---------------------------------------------------------------- claims
\* the length of member k and the element its store holds at offset i
LenOf(c) == c.store.len

ElemAt(c, i) == c.store.buf[i + 1]

\* what a point-read of c at offset i can give
PointRead(c, i) == Read(c, get_ref(c, i))

\* C1: Channel::fill(v, n) has length exactly n, and a point-read at every
\* offset i < n returns v (n = 0 included: length 0, nothing to read).
C1_FillCorrect ==
    last.op = "fill" =>
        LET c == chs[last.k]
        IN  /\ LenOf(c) = last.usize
            /\ \A i \in 0 .. (last.usize - 1) :
                  PointRead(c, i) = {Ok(last.val[1])}

C1_Witness ==
    /\ last.op = "fill"
    /\ last.usize = MaxLen
    /\ LenOf(chs[last.k]) = MaxLen

\* C2: after c.reset_values(v), whatever c held before, a point-read at
\* every valid offset returns v and the length of c is what it was.
C2_ResetCorrect ==
    [][last'.op = "reset_values" =>
          LET k == last'.k
          IN  /\ LenOf(chs'[k]) = LenOf(chs[k])
              /\ \A i \in 0 .. (LenOf(chs[k]) - 1) :
                    PointRead(chs'[k], i) = {Ok(last'.val[1])}]_vars

C2_Witness ==
    /\ last.op = "reset_values"
    /\ LenOf(chs[last.k]) = MaxLen
    /\ chs[last.k].store.cap > MaxLen
    /\ \A i \in 0 .. (MaxLen - 1) : ElemAt(chs[last.k], i) = last.val[1]

\* C3: writing x through get_mut(i) at a valid offset i makes get_ref(i)
\* return x, and get_ref(j) at every other valid offset j returns what it
\* returned before the write.
C3_ReadWriteConsistent ==
    [][(last'.op = "get_mut" /\ last'.usize < LenOf(chs[last'.k])) =>
          LET k == last'.k
              i == last'.usize
          IN  /\ last'.signal = "none"
              /\ PointRead(chs'[k], i) = {Ok(last'.val[1])}
              /\ LenOf(chs'[k]) = LenOf(chs[k])
              /\ \A j \in (0 .. (LenOf(chs[k]) - 1)) \ {i} :
                    PointRead(chs'[k], j) = PointRead(chs[k], j)]_vars

C3_Witness ==
    /\ last.op = "get_mut"
    /\ last.signal = "none"
    /\ LenOf(chs[last.k]) = MaxLen
    /\ last.usize < MaxLen
    /\ ElemAt(chs[last.k], last.usize) = last.val[1]
    /\ \E j \in (0 .. (MaxLen - 1)) \ {last.usize} :
          ElemAt(chs[last.k], j) # last.val[1]

\* C4: Channels::fill((v1, v2), n) is the tuple (Channel::fill(v1, n),
\* Channel::fill(v2, n)); Channels::reset_values((v1, v2)) leaves the tuple
\* as resetting each member k with its own vk does: every member is reset,
\* member k reads vk at each of its offsets, and keeps its own length.
C4_TupleComposition ==
    [][/\ last'.op = "Channels::fill" =>
             /\ DOMAIN chs' = DOMAIN last'.val
             /\ \A k \in DOMAIN last'.val :
                   /\ chs'[k] = fill(HeapBase(k), last'.val[k], last'.usize)
                   /\ LenOf(chs'[k]) = last'.usize
                   /\ \A i \in 0 .. (last'.usize - 1) :
                         ElemAt(chs'[k], i) = last'.val[k]
       /\ last'.op = "Channels::reset_values" =>
             /\ DOMAIN chs' = DOMAIN chs
             /\ \A k \in DOMAIN chs :
                   /\ chs'[k] = reset_values(chs[k], last'.val[k])
                   /\ LenOf(chs'[k]) = LenOf(chs[k])
                   /\ \A i \in 0 .. (LenOf(chs[k]) - 1) :
                         ElemAt(chs'[k], i) = last'.val[k]]_vars

C4_Witness ==
    /\ last.op = "Channels::reset_values"
    /\ Len(chs) = 2
    /\ last.val[1] # last.val[2]
    /\ LenOf(chs[1]) # LenOf(chs[2])
    /\ LenOf(chs[2]) > 0
    /\ ElemAt(chs[2], 0) = last.val[2]

AllWritten(c) == \A i \in 1 .. LenOf(c) : c.store.buf[i] # Uninit

\* C6: maybe_uninit(n) reserves exactly n slots and writes none; once each
\* of the n slots has been written, assume_init yields a Channel<T> of
\* length n whose point-read at every offset returns the value written
\* there, as Channel::new over a store of the same values does; assume_init
\* changes neither the length nor the content of any slot.
C6_UninitRoundTrip ==
    [][/\ last'.op = "maybe_uninit" =>
             LET c == chs'[last'.k]
             IN  /\ c.marker = "MaybeUninit<T>"
                 /\ LenOf(c) = last'.usize
                 /\ \A i \in 1 .. Len(c.store.buf) : c.store.buf[i] = Uninit
       /\ last'.op = "assume_init" =>
             LET c == chs[last'.k]
                 d == chs'[last'.k]
                 explicit == new("T", vec_of(HeapBase(last'.k), as_slice(c.store)))
             IN  /\ d.marker = "T"
                 /\ LenOf(d) = LenOf(c)
                 /\ d.store.buf = c.store.buf
                 /\ AllWritten(c) =>
                       /\ LenOf(d) = len0[last'.k]
                       /\ LenOf(d) = LenOf(explicit)
                       /\ \A i \in 0 .. (LenOf(c) - 1) :
                             /\ PointRead(d, i) = {Ok(ElemAt(c, i))}
                             /\ PointRead(d, i) = PointRead(explicit, i)]_vars

C6_Witness ==
    /\ last.op = "assume_init"
    /\ chs[last.k].marker = "T"
    /\ LenOf(chs[last.k]) = MaxLen
    /\ chs[last.k].store.cap > MaxLen
    /\ AllWritten(chs[last.k])
    /\ ElemAt(chs[last.k], 0) # ElemAt(chs[last.k], MaxLen - 1)

\* C7: in a checked build, get_ref(offset) and get_mut(offset) with
\* offset >= length signal IndexOutOfBounds, return no view, and leave the
\* channel's content and length as they were.
C7_CheckedBounds ==
    [][(/\ debug_assertions
        /\ last'.op \in {"get_ref", "get_mut"}
        /\ last'.usize >= LenOf(chs[last'.k])) =>
          /\ last'.signal = "IndexOutOfBounds"
          /\ last'.ret = <<>>
          /\ chs' = chs]_vars

C7_Witness ==
    /\ debug_assertions
    /\ last.op = "get_mut"
    /\ LenOf(chs[last.k]) > 0
    /\ last.usize = LenOf(chs[last.k])
    /\ last.signal = "IndexOutOfBounds"

\* C8: the length of a channel's store is the length it was constructed
\* with, after any sequence of the operations.
C8_LengthFixed ==
    \A k \in DOMAIN chs : LenOf(chs[k]) = len0[k]

C8_Witness ==
    /\ last.op = "Channels::reset_values"
    /\ chs[1].marker = "T"
    /\ len0[1] = MaxLen
    /\ chs[1].store.cap > MaxLen
    /\ LenOf(chs[1]) = MaxLen

\* C9: Channel::new(c.take_store()) is c: the same length, the same element
\* at every offset, and the very same store (no copy, nothing altered).
C9_TakeStoreNew ==
    [][last'.op = "take_store" =>
          LET c == chs[last'.k]
              d == chs'[last'.k]
          IN  /\ LenOf(d) = LenOf(c)
              /\ \A i \in 0 .. (LenOf(c) - 1) : ElemAt(d, i) = ElemAt(c, i)
              /\ d = c]_vars

C9_Witness ==
    /\ last.op = "take_store"
    /\ LenOf(chs[last.k]) = MaxLen
    /\ ElemAt(chs[last.k], 0) # ElemAt(chs[last.k], MaxLen - 1)

\* C10: IndexOutOfBounds is signalled only by a point-read (get_ref, get_mut
\* and the get built on get_ref) in a checked build; in an unchecked build
\* no offset makes them signal it; get_mut_ptr(offset) signals nothing in
\* either build, returns the store's base address advanced by offset, and
\* leaves every element as it was.
C10_UncheckedNoSignal ==
    [][/\ last'.signal = "IndexOutOfBounds" =>
             /\ debug_assertions
             /\ last'.op \in {"get_ref", "get_mut", "get"}
       /\ last'.op = "get_mut_ptr" =>
             /\ last'.signal = "none"
             /\ last'.ret = <<chs[last'.k].store.ptr + last'.usize>>
             /\ chs' = chs]_vars

C10_Witness ==
    /\ ~debug_assertions
    /\ last.op = "get_ref"
    /\ last.usize >= LenOf(chs[last.k])
    /\ last.signal = "none"

====
